---- MODULE Spec2Model ----
(***************************************************************************)
(* Model of BaseImageBuilder (src/src/base_image_builder.py): the          *)
(* dependency-aware image name, the reuse decision and the scoped build    *)
(* of one component image.                                                 *)
(*                                                                         *)
(* Python strings are sequences of one-character strings, so that split,   *)
(* join, format and the lexicographic order of list.sort are computed and  *)
(* not assumed.                                                            *)
(***************************************************************************)
EXTENDS Integers, Sequences, FiniteSets, TLC

\* ------------------------------------------------------------------------
\* Bounds of the model
\* ------------------------------------------------------------------------
\* Largest number of names in a builder's declared dependency list.
MaxDeps == 2
\* Number of build calls made on one builder in one behaviour.
MaxCalls == 2
\* Number of stage operations called in one behaviour.
MaxStageSteps == 2

\* ------------------------------------------------------------------------
\* Python str and list primitives used by the builder
\* ------------------------------------------------------------------------
\* Code points of the characters that occur in the model's strings.
CodePoint ==
    ("." :> 46) @@ ("/" :> 47) @@ ("0" :> 48) @@ ("1" :> 49) @@ ("2" :> 50) @@
    ("3" :> 51) @@ ("7" :> 55) @@ (":" :> 58) @@ ("_" :> 95) @@ ("a" :> 97) @@
    ("b" :> 98) @@ ("c" :> 99) @@ ("d" :> 100) @@ ("e" :> 101) @@
    ("h" :> 104) @@ ("m" :> 109) @@ ("n" :> 110) @@ ("o" :> 111) @@
    ("p" :> 112) @@ ("s" :> 115) @@ ("t" :> 116) @@ ("w" :> 119)

\* Python's str "<": code point order at the first difference, a proper
\* prefix before the longer string.
RECURSIVE StrLess(_, _)
StrLess(s, t) ==
    IF t = <<>> THEN FALSE
    ELSE IF s = <<>> THEN TRUE
    ELSE IF CodePoint[Head(s)] # CodePoint[Head(t)]
         THEN CodePoint[Head(s)] < CodePoint[Head(t)]
         ELSE StrLess(Tail(s), Tail(t))

\* Insert x into the ascending list l after every element not greater than
\* it (list.sort is stable).
RECURSIVE SortedInsert(_, _)
SortedInsert(x, l) ==
    IF l = <<>> THEN <<x>>
    ELSE IF StrLess(x, Head(l)) THEN <<x>> \o l
    ELSE <<Head(l)>> \o SortedInsert(x, Tail(l))

\* list.sort() on a list of str: the ascending arrangement of the list.
RECURSIVE ListSort(_)
ListSort(l) ==
    IF l = <<>> THEN <<>>
    ELSE SortedInsert(l[Len(l)], ListSort(SubSeq(l, 1, Len(l) - 1)))

\* str.split(sep) for a one-character separator: the fields between the
\* separators, in order; a string without the separator is its only field.
RECURSIVE StrSplit(_, _)
StrSplit(s, sep) ==
    IF \A i \in 1..Len(s) : s[i] # sep THEN <<s>>
    ELSE LET k == CHOOSE i \in 1..Len(s) :
                      /\ s[i] = sep
                      /\ \A j \in 1..(i - 1) : s[j] # sep
         IN  <<SubSeq(s, 1, k - 1)>> \o StrSplit(SubSeq(s, k + 1, Len(s)), sep)

\* sep.join(parts)
RECURSIVE StrJoin(_, _)
StrJoin(sep, parts) ==
    IF parts = <<>> THEN <<>>
    ELSE IF Len(parts) = 1 THEN parts[1]
    ELSE parts[1] \o sep \o StrJoin(sep, Tail(parts))

\* ------------------------------------------------------------------------
\* Values
\* ------------------------------------------------------------------------
\* Python's None where a str is expected (no str equals it).
None == <<"None">>

RELEASE == "RELEASE"
SNAPSHOT == "SNAPSHOT"

\* Strings the builds of the model are made of.
S_acme == <<"a", "c", "m", "e">>
S_web == <<"w", "e", "b">>
S_db == <<"d", "b">>
S_cache == <<"c", "a", "c", "h", "e">>
S_b == <<"b">>
S_snapshot_ == <<"s", "n", "a", "p", "s", "h", "o", "t", "_">>

\* Component names a builder can declare as dependencies.
DepNames == {S_db, S_cache, S_b}

\* image_name values a dependency's ComponentConfig can hold:
\* ".../db:1.0_", ".../cache:2.0_", and for "b" a name with two ":" ("h:7/b:1_")
\* and a name without any ("b").
ImageNamesOf(dep) ==
    IF dep = S_db THEN {<<".", ".", ".", "/", "d", "b", ":", "1", ".", "0", "_">>}
    ELSE IF dep = S_cache
         THEN {<<".", ".", ".", "/", "c", "a", "c", "h", "e", ":", "2", ".", "0", "_">>}
    ELSE {<<"h", ":", "7", "/", "b", ":", "1", "_">>, <<"b">>}

\* built_config.components: the already built components, name -> image_name
\* (of a ComponentConfig only image_name is read by the builder).
ComponentMaps ==
    UNION {{f \in [S -> UNION {ImageNamesOf(d) : d \in S}] :
                \A d \in S : f[d] \in ImageNamesOf(d)} : S \in SUBSET DepNames}

Timestamps == {<<"7">>, <<"7", "_", "b", "1">>}
Versions == {<<"3", ".", "0">>, <<"3", ".", "0", "_", "b", "1">>}

\* Local paths a snapshot can name, and what the filesystem holds there.
P_dir == <<"/", "d">>
P_file == <<"/", "e">>
P_none == <<"/", "n">>
SnapshotPaths == {P_dir, P_file, P_none}
PathKind(path) ==
    IF path = P_dir THEN "dir" ELSE IF path = P_file THEN "file" ELSE "missing"

\* component_config: a mapping with the keys "release" and/or "snapshot"; a
\* key the mapping does not hold is None here.
ComponentConfigs ==
    {[release |-> None, snapshot |-> None]}
    \cup {[release |-> v, snapshot |-> None] : v \in Versions}
    \cup {[release |-> None, snapshot |-> p] : p \in SnapshotPaths}
    \cup {[release |-> <<"3", ".", "0">>, snapshot |-> P_dir]}

\* The declared dependency lists: every arrangement of every set of at most
\* MaxDeps names.
DependencyLists ==
    {l \in UNION {[1..n -> DepNames] : n \in 0..MaxDeps} :
        \A i, j \in 1..Len(l) : i # j => l[i] # l[j]}

\* The version_from_image_name callables a builder is constructed with:
\*   "tag"           lambda image_name: image_name.split(":")[-1]
\*   "component_tag" lambda image_name:
\*                       "_".join(image_name.split(":")[-1].split("_")[:2])
VersionFunctions == {"tag", "component_tag"}

\* ------------------------------------------------------------------------
\* State
\* ------------------------------------------------------------------------
VARIABLES
    name,                 \* self._name
    declared,             \* the dependencies argument of __init__, as given
    dependencies,         \* self._dependencies
    versionFn,            \* self._version_from_image_name
    built_config,         \* the Configuration passed to build
    component_config,     \* the component_config passed to build
    force_rebuild,        \* the force_rebuild passed to build
    dist_type,            \* local of build
    argument,             \* local of build
    image_name,           \* local of build
    reuse_existing_image, \* local of build
    images,               \* the image names the local docker daemon holds
    images_before,        \* images as they were when build was called
    tmp_dir,              \* the scratch directory <resource dir>/tmp
    raised,               \* the exception unwinding build, "none" if none
    returned,             \* <<the ComponentConfig build returned>>, or <<>>
    log,                  \* the external calls of the current build, in order
    calls,                \* build calls made so far
    pc,                   \* position of the current build call
    stage_fs,             \* the directories and files the stages work on
    stage_downloads,      \* the (url, dest_path) calls the Downloader received
    stage_last,           \* the stage operation called last, and its result
    stage_before,         \* stage_fs and stage_downloads before that call
    stage_steps           \* stage operations called so far

vars == <<name, declared, dependencies, versionFn, built_config,
          component_config, force_rebuild, dist_type, argument, image_name,
          reuse_existing_image, images, images_before, tmp_dir, raised,
          returned, log, calls, pc, stage_fs, stage_downloads, stage_last,
          stage_before, stage_steps>>

buildVars == <<name, declared, dependencies, versionFn, built_config,
               component_config, force_rebuild, dist_type, argument,
               image_name, reuse_existing_image, images, images_before,
               tmp_dir, raised, returned, log, calls, pc>>
stageVars == <<stage_fs, stage_downloads, stage_last, stage_before,
               stage_steps>>

builder == <<name, declared, versionFn>>
inputs == <<built_config, component_config, force_rebuild>>
locals == <<dist_type, argument, image_name, reuse_existing_image>>

\* ------------------------------------------------------------------------
\* Collaborators
\* ------------------------------------------------------------------------
\* utils.dist_type_and_arg: the dist type and its argument of a mapping with
\* exactly one of the two keys; any other mapping is a configuration error.
DistTypeAndArg(cfg) ==
    IF cfg.release # None /\ cfg.snapshot = None
        THEN [ok |-> TRUE, dist_type |-> RELEASE, argument |-> cfg.release]
    ELSE IF cfg.release = None /\ cfg.snapshot # None
        THEN [ok |-> TRUE, dist_type |-> SNAPSHOT, argument |-> cfg.snapshot]
    ELSE [ok |-> FALSE, dist_type |-> "None", argument |-> None]

\* utils.image_exists_locally(client, image_name)
ImageExistsLocally(imgs, img) == img \in imgs

\* utils.TmpDirHandler.__enter__: the scratch directory exists, empty.
TmpDirEnter == [exists |-> TRUE, files |-> {}]

\* utils.TmpDirHandler.__exit__: the scratch directory and all it holds are
\* removed.
TmpDirExit == [exists |-> FALSE, files |-> {}]

\* The preconditions of the stages of a build plan, over what the build is
\* given: CreateTarfileStage needs source_dir to be a directory and the
\* parent of dest_path (the scratch directory) to be one; DownloadFileStage
\* needs the parent of dest_path to be a directory.
CreateTarfileStagePrecondition(source_dir, dest_parent) ==
    PathKind(source_dir) = "dir" /\ dest_parent.exists
DownloadFileStagePrecondition(dest_parent) == dest_parent.exists

\* self._version_from_image_name(image_name)
VersionFromImageName(fn, img) ==
    LET tag == StrSplit(img, ":")[Len(StrSplit(img, ":"))]
        fields == StrSplit(tag, "_")
    IN  IF fn = "tag" THEN tag
        ELSE StrJoin(<<"_">>, SubSeq(fields, 1, IF Len(fields) < 2 THEN Len(fields) ELSE 2))

\* ------------------------------------------------------------------------
\* The stages: CreateCacheStage, CreateTarfileStage, DownloadFileStage
\* ------------------------------------------------------------------------
\* A path is the sequence of its names under the test's temporary directory
\* <<>>; a filesystem is the set of its directories and the set of its plain
\* files.
D_parent == <<"parent">>
D_source == <<"source">>
StageDirs == {D_parent, D_source}
DestPaths == {d \o <<"file.tar.gz">> : d \in StageDirs}
Urls == {"www.something.com", "www.other.com"}

Parent(path) == SubSeq(path, 1, Len(path) - 1)
Exists(fs, path) == path \in fs.dirs \cup fs.files
IsDir(fs, path) == path \in fs.dirs

\* The filesystems a stage can be constructed over: each of parent and source
\* missing, a plain file or a directory; a directory parent without a cache
\* directory, with an empty one, or with one that holds a file.
StageFilesystems ==
    {[dirs |-> {<<>>} \cup pd \cup sd \cup cd, files |-> pf \cup sf \cup cf] :
        <<pd, pf, cd, cf>> \in
            {<<{}, {}, {}, {}>>,
             <<{}, {D_parent}, {}, {}>>,
             <<{D_parent}, {}, {}, {}>>,
             <<{D_parent}, {}, {D_parent \o <<"cache">>}, {}>>,
             <<{D_parent}, {}, {D_parent \o <<"cache">>},
               {D_parent \o <<"cache", "file">>}>>},
        <<sd, sf>> \in {<<{}, {}>>, <<{}, {D_source}>>, <<{D_source}, {}>>}}

NoStageCall == [op |-> "none", stage |-> <<>>, result |-> FALSE]
StageCall(op, stage, result) == [op |-> op, stage |-> stage, result |-> result]

\* CreateCacheStage(parent_dir).check_precondition()
CreateCacheStage_check_precondition(fs, parent_dir) == IsDir(fs, parent_dir)

\* The cache directory removed with what it holds, then created.
CreateCacheStage_execute_Recreate(fs, parent_dir) ==
    LET cache == parent_dir \o <<"cache">>
        under(path) == Len(path) > Len(cache)
                           /\ SubSeq(path, 1, Len(cache)) = cache
    IN  [dirs |-> {d \in fs.dirs : ~under(d)} \cup {cache},
         files |-> {f \in fs.files : ~under(f)}]

\* CreateCacheStage(parent_dir).execute(): the directory parent_dir/cache is
\* there afterwards; one that is there already is left as it is.
CreateCacheStage_execute(fs, parent_dir) ==
    [fs EXCEPT !.dirs = @ \cup {parent_dir \o <<"cache">>}]

\* The precondition asking only that the two paths exist.
CreateTarfileStage_check_precondition_Exists(fs, source_dir, dest_path) ==
    Exists(fs, source_dir) /\ Exists(fs, Parent(dest_path))

\* CreateTarfileStage(source_dir, dest_path).check_precondition()
CreateTarfileStage_check_precondition(fs, source_dir, dest_path) ==
    IsDir(fs, source_dir) /\ IsDir(fs, Parent(dest_path))

\* CreateTarfileStage(source_dir, dest_path).execute(): the archive is at
\* dest_path afterwards.
CreateTarfileStage_execute(fs, source_dir, dest_path) ==
    [fs EXCEPT !.files = @ \cup {dest_path}]

\* DownloadFileStage(downloader, url, dest_path).check_precondition()
DownloadFileStage_check_precondition(fs, dest_path) ==
    IsDir(fs, Parent(dest_path))

\* The downloader called with the destination's directory.
DownloadFileStage_execute_ToParent(downloads, url, dest_path) ==
    Append(downloads, <<url, Parent(dest_path)>>)

\* DownloadFileStage(downloader, url, dest_path).execute(): the downloader's
\* download(url, dest_path) is called.
DownloadFileStage_execute(downloads, url, dest_path) ==
    Append(downloads, <<url, dest_path>>)

\* ------------------------------------------------------------------------
\* BaseImageBuilder._get_image_name
\* ------------------------------------------------------------------------
\* component_tag: the version of a release, "snapshot_<timestamp>" of a
\* snapshot.
ComponentTag(dt, version, cfg) ==
    IF dt = RELEASE THEN version ELSE S_snapshot_ \o cfg.timestamp

\* The dependency list used in declaration order.
SortDependencies_Unsorted(deps) == deps

\* dependencies.sort(): the list self._dependencies itself is sorted.
SortDependencies(deps) == ListSort(deps)

\* The field after the first ":" instead of the last one.
DependencyTag_SecondField(img) ==
    IF Len(StrSplit(img, ":")) < 2 THEN img ELSE StrSplit(img, ":")[2]

\* image_name.split(":")[-1]
DependencyTag(img) == StrSplit(img, ":")[Len(StrSplit(img, ":"))]

\* built_config.components[dependency] raises KeyError for a name the mapping
\* does not hold: the loop stops at the first such name.
MissingDependency(deps, components) ==
    \E i \in 1..Len(deps) : deps[i] \notin DOMAIN components

\* deps_join_list after the loop over the (sorted) dependencies.
RECURSIVE DepsJoinList(_, _)
DepsJoinList(deps, components) ==
    IF deps = <<>> THEN <<>>
    ELSE <<Head(deps) \o DependencyTag(components[Head(deps)])>>
             \o DepsJoinList(Tail(deps), components)

\* The template with "-" between the component tag and the dependencies tag.
FormatTemplate_Dash(repository, component, component_tag, dependencies_tag) ==
    repository \o <<"/">> \o component \o <<":">> \o component_tag
        \o <<"-">> \o dependencies_tag

\* template.format(repository=..., component=..., component_tag=...,
\*                 dependencies_tag=...)
FormatTemplate(repository, component, component_tag, dependencies_tag) ==
    repository \o <<"/">> \o component \o <<":">> \o component_tag
        \o <<"_">> \o dependencies_tag

\* _get_image_name sorting a copy of the list (sorted(self.dependencies())).
GetImageName_SortedCopy(comp, deps, dt, version, cfg) ==
    LET sorted == SortDependencies(deps) IN
    IF dt = RELEASE /\ version = None
        THEN [raised |-> "ValueError", value |-> None, dependencies |-> deps]
    ELSE IF MissingDependency(sorted, cfg.components)
        THEN [raised |-> "KeyError", value |-> None, dependencies |-> deps]
    ELSE [raised |-> "none",
          value |-> FormatTemplate(cfg.repository, comp,
                                   ComponentTag(dt, version, cfg),
                                   StrJoin(<<"_">>, DepsJoinList(sorted, cfg.components))),
          dependencies |-> deps]

\* _get_image_name leaving out the dependencies built_config.components does
\* not hold.
GetImageName_SkipMissing(comp, deps, dt, version, cfg) ==
    LET sorted == SortDependencies(deps)
        present == SelectSeq(sorted, LAMBDA d : d \in DOMAIN cfg.components)
    IN  [raised |-> "none",
         value |-> FormatTemplate(cfg.repository, comp,
                                  ComponentTag(dt, version, cfg),
                                  StrJoin(<<"_">>, DepsJoinList(present, cfg.components))),
         dependencies |-> sorted]

\* The outcome of _get_image_name on the dependency list deps: the exception
\* it raises ("none" if it returns), the value it returns, and the list as
\* it leaves it.
GetImageName(comp, deps, dt, version, cfg) ==
    LET sorted == SortDependencies(deps) IN
    IF dt = RELEASE /\ version = None
        THEN [raised |-> "ValueError", value |-> None, dependencies |-> deps]
    ELSE IF MissingDependency(sorted, cfg.components)
        THEN [raised |-> "KeyError", value |-> None, dependencies |-> sorted]
    ELSE [raised |-> "none",
          value |-> FormatTemplate(cfg.repository, comp,
                                   ComponentTag(dt, version, cfg),
                                   StrJoin(<<"_">>, DepsJoinList(sorted, cfg.components))),
          dependencies |-> sorted]

\* ------------------------------------------------------------------------
\* BaseImageBuilder.build
\* ------------------------------------------------------------------------
\* An external call: what was called, with which str argument, and the
\* exception it raised ("none" if it returned).
Event(op, arg, exc) == [op |-> op, arg |-> arg, raises |-> exc]

\* The reuse decision with the dist type left out of it.
ReuseExistingImage_AnyDistType(force, dt, imgs, img) ==
    ~force /\ ImageExistsLocally(imgs, img)

\* The reuse decision with force_rebuild left out of it.
ReuseExistingImage_IgnoringForce(force, dt, imgs, img) ==
    dt = RELEASE /\ ImageExistsLocally(imgs, img)

\* not force_rebuild and dist_type == RELEASE and image_exists_locally(...)
ReuseExistingImage(force, dt, imgs, img) ==
    ~force /\ dt = RELEASE /\ ImageExistsLocally(imgs, img)

\* "and" evaluates its operands left to right and stops at the first false
\* one: the docker daemon is asked only for an unforced release.
ExistenceChecked(force, dt) == ~force /\ dt = RELEASE

\* An exception raised inside the body leaving build without the handler's
\* __exit__ (a body that is not under a with statement).
UnwindFromWithBody_NoExit == "done"

\* Where an exception raised inside the body of the with statement goes: to
\* the handler's __exit__, and from there out of build.
UnwindFromWithBody == "exit"

\* The dist type's argument returned as the version for either dist type.
ResolveVersion_Argument(dt, arg, fn, img) == arg

\* The version of the returned ComponentConfig.
ResolveVersion(dt, arg, fn, img) ==
    IF dt = RELEASE THEN arg ELSE VersionFromImageName(fn, img)

\* No stage has been constructed or called.
StagesUnused ==
    /\ stage_fs = [dirs |-> {<<>>}, files |-> {}]
    /\ stage_downloads = <<>>
    /\ stage_last = NoStageCall
    /\ stage_before = [fs |-> stage_fs, downloads |-> <<>>]
    /\ stage_steps = 0

Init ==
    /\ name = S_web
    /\ declared \in DependencyLists
    /\ dependencies = declared
    /\ versionFn \in VersionFunctions
    /\ built_config \in [repository : {S_acme},
                         timestamp : Timestamps,
                         components : ComponentMaps,
                         resource_path : {<<"/", "r">>}]
    /\ component_config = [release |-> None, snapshot |-> None]
    /\ force_rebuild = FALSE
    /\ dist_type = "None"
    /\ argument = None
    /\ image_name = None
    /\ reuse_existing_image = FALSE
    /\ images = {}
    /\ images_before = {}
    /\ tmp_dir = [exists |-> FALSE, files |-> {}]
    /\ raised = "none"
    /\ returned = <<>>
    /\ log = <<>>
    /\ calls = 0
    /\ pc = "idle"
    /\ StagesUnused

\* A caller calls build(component_config, built_config, force_rebuild).
Call ==
    /\ pc \in {"idle", "done"}
    /\ calls < MaxCalls
    /\ component_config' \in ComponentConfigs
    /\ force_rebuild' \in BOOLEAN
    /\ dist_type' = "None"
    /\ argument' = None
    /\ image_name' = None
    /\ reuse_existing_image' = FALSE
    /\ raised' = "none"
    /\ returned' = <<>>
    /\ log' = <<>>
    /\ calls' = calls + 1
    /\ pc' = "name"
    /\ images_before' = images
    /\ UNCHANGED <<stageVars, builder, dependencies, built_config, images, tmp_dir>>

\* Lines 35-38: the dist type is resolved and the image name computed; an
\* exception of either leaves build at once.
ComputeImageName ==
    /\ pc = "name"
    /\ LET r == DistTypeAndArg(component_config)
           n == GetImageName(name, dependencies, r.dist_type,
                             IF r.dist_type = RELEASE THEN r.argument ELSE None,
                             built_config)
       IN  IF ~r.ok
           THEN /\ raised' = "ConfigurationError"
                /\ pc' = "done"
                /\ UNCHANGED <<dist_type, argument, image_name, dependencies>>
           ELSE /\ dist_type' = r.dist_type
                /\ argument' = r.argument
                /\ dependencies' = n.dependencies
                /\ image_name' = n.value
                /\ raised' = n.raised
                /\ pc' = IF n.raised = "none" THEN "decide" ELSE "done"
    /\ UNCHANGED <<stageVars, builder, inputs, reuse_existing_image, images,
                   images_before, tmp_dir, returned, log, calls>>

\* The rebuild entered whatever the reuse decision is.
DecideReuse_AlwaysRebuild ==
    /\ pc = "decide"
    /\ reuse_existing_image' =
           ReuseExistingImage(force_rebuild, dist_type, images, image_name)
    /\ log' = IF ExistenceChecked(force_rebuild, dist_type)
              THEN Append(log, Event("image_exists_locally", image_name, "none"))
              ELSE log
    /\ pc' = "enter"
    /\ UNCHANGED <<stageVars, builder, dependencies, inputs, dist_type, argument,
                   image_name, images, images_before, tmp_dir, raised,
                   returned, calls>>

\* Lines 40-46: the reuse decision.
DecideReuse ==
    /\ pc = "decide"
    /\ reuse_existing_image' =
           ReuseExistingImage(force_rebuild, dist_type, images, image_name)
    /\ log' = IF ExistenceChecked(force_rebuild, dist_type)
              THEN Append(log, Event("image_exists_locally", image_name, "none"))
              ELSE log
    /\ pc' = IF reuse_existing_image' THEN "return" ELSE "enter"
    /\ UNCHANGED <<stageVars, builder, dependencies, inputs, dist_type, argument,
                   image_name, images, images_before, tmp_dir, raised,
                   returned, calls>>

\* Line 47: the with statement enters the TmpDirHandler.
EnterTmpDir ==
    /\ pc = "enter"
    /\ tmp_dir' = TmpDirEnter
    /\ log' = Append(log, Event("TmpDirHandler.__enter__", <<>>, "none"))
    /\ pc' = "prepare"
    /\ UNCHANGED <<stageVars, builder, dependencies, inputs, locals, images,
                   images_before, raised, returned, calls>>

\* The download tried again after wget.download raised.
PrepareTarfileRelease_Retry ==
    /\ pc = "prepare"
    /\ dist_type = RELEASE
    /\ \/ /\ log' = Append(log, Event("wget.download", argument, "none"))
          /\ tmp_dir' = [tmp_dir EXCEPT !.files = @ \cup {"archive"}]
          /\ pc' = "docker"
       \/ /\ log' = Append(log, Event("wget.download", argument, "FetchError"))
          /\ tmp_dir' = tmp_dir
          /\ pc' = "prepare"
    /\ UNCHANGED <<stageVars, builder, dependencies, inputs, locals, images,
                   images_before, raised, returned, calls>>

\* Lines 48-50 and 67-74: the release archive is downloaded into the scratch
\* directory; wget.download returns or raises.
PrepareTarfileRelease ==
    /\ pc = "prepare"
    /\ dist_type = RELEASE
    /\ \/ /\ log' = Append(log, Event("wget.download", argument, "none"))
          /\ tmp_dir' = [tmp_dir EXCEPT !.files = @ \cup {"archive"}]
          /\ raised' = raised
          /\ pc' = "docker"
       \/ /\ log' = Append(log, Event("wget.download", argument, "FetchError"))
          /\ tmp_dir' = tmp_dir
          /\ raised' = "FetchError"
          /\ pc' = UnwindFromWithBody
    /\ UNCHANGED <<stageVars, builder, dependencies, inputs, locals, images,
                   images_before, returned, calls>>

\* Lines 51-53 and 76-82: tarfile.open creates the archive in the scratch
\* directory, then tar.add reads the snapshot path: a missing path raises,
\* a directory and a plain file are both packed.
PrepareTarfileSnapshot ==
    /\ pc = "prepare"
    /\ dist_type = SNAPSHOT
    /\ tmp_dir' = [tmp_dir EXCEPT !.files = @ \cup {"archive"}]
    /\ IF PathKind(argument) = "missing"
       THEN /\ log' = log \o <<Event("tarfile.open", <<>>, "none"),
                               Event("tar.add", argument, "FileNotFoundError")>>
            /\ raised' = "FileNotFoundError"
            /\ pc' = UnwindFromWithBody
       ELSE /\ log' = log \o <<Event("tarfile.open", <<>>, "none"),
                               Event("tar.add", argument, "none")>>
            /\ raised' = raised
            /\ pc' = "docker"
    /\ UNCHANGED <<stageVars, builder, dependencies, inputs, locals, images,
                   images_before, returned, calls>>

\* The image built under the component's bare name.
BuildDockerImage_TagName ==
    /\ pc = "docker"
    /\ \/ /\ log' = Append(log, Event("images.build", name, "none"))
          /\ images' = images \cup {name}
          /\ raised' = raised
          /\ pc' = "exit"
       \/ /\ log' = Append(log, Event("images.build", name, "BuildError"))
          /\ images' = images
          /\ raised' = "BuildError"
          /\ pc' = UnwindFromWithBody
    /\ UNCHANGED <<stageVars, builder, dependencies, inputs, locals, images_before,
                   tmp_dir, returned, calls>>

\* Lines 57 and 84-86: the docker daemon builds the image under image_name,
\* or fails.
BuildDockerImage ==
    /\ pc = "docker"
    /\ \/ /\ log' = Append(log, Event("images.build", image_name, "none"))
          /\ images' = images \cup {image_name}
          /\ raised' = raised
          /\ pc' = "exit"
       \/ /\ log' = Append(log, Event("images.build", image_name, "BuildError"))
          /\ images' = images
          /\ raised' = "BuildError"
          /\ pc' = UnwindFromWithBody
    /\ UNCHANGED <<stageVars, builder, dependencies, inputs, locals, images_before,
                   tmp_dir, returned, calls>>

\* Line 47, leaving the with statement: __exit__ runs, then the pending
\* exception, if any, leaves build.
ExitTmpDir ==
    /\ pc = "exit"
    /\ tmp_dir' = TmpDirExit
    /\ log' = Append(log, Event("TmpDirHandler.__exit__", <<>>, "none"))
    /\ pc' = IF raised = "none" THEN "return" ELSE "done"
    /\ UNCHANGED <<stageVars, builder, dependencies, inputs, locals, images,
                   images_before, raised, returned, calls>>

\* The returned ComponentConfig also registered in built_config.components.
Return_Registering ==
    /\ pc = "return"
    /\ returned' = <<[dist_type |-> dist_type,
                      version |-> ResolveVersion(dist_type, argument, versionFn,
                                                 image_name),
                      image_name |-> image_name]>>
    /\ built_config' =
           [built_config EXCEPT !.components =
               [d \in DOMAIN @ \cup {name} |-> IF d = name THEN image_name ELSE @[d]]]
    /\ pc' = "done"
    /\ UNCHANGED <<stageVars, builder, dependencies, component_config, force_rebuild,
                   locals, images, images_before, tmp_dir, raised, log, calls>>

\* Lines 59-65: the ComponentConfig is returned.
Return ==
    /\ pc = "return"
    /\ returned' = <<[dist_type |-> dist_type,
                      version |-> ResolveVersion(dist_type, argument, versionFn,
                                                 image_name),
                      image_name |-> image_name]>>
    /\ pc' = "done"
    /\ UNCHANGED <<stageVars, builder, dependencies, inputs, locals, images,
                   images_before, tmp_dir, raised, log, calls>>

Next ==
    \/ Call
    \/ ComputeImageName
    \/ DecideReuse
    \/ EnterTmpDir
    \/ PrepareTarfileRelease
    \/ PrepareTarfileSnapshot
    \/ BuildDockerImage
    \/ ExitTmpDir
    \/ Return

Spec == Init /\ [][Next]_vars

\* ------------------------------------------------------------------------
\* The stages called on their own, as their tests call them
\* ------------------------------------------------------------------------
StageInit ==
    /\ name = S_web
    /\ declared = <<>>
    /\ dependencies = <<>>
    /\ versionFn = "tag"
    /\ built_config = [repository |-> S_acme, timestamp |-> <<"7">>,
                       components |-> <<>>, resource_path |-> <<"/", "r">>]
    /\ component_config = [release |-> None, snapshot |-> None]
    /\ force_rebuild = FALSE
    /\ dist_type = "None"
    /\ argument = None
    /\ image_name = None
    /\ reuse_existing_image = FALSE
    /\ images = {}
    /\ images_before = {}
    /\ tmp_dir = [exists |-> FALSE, files |-> {}]
    /\ raised = "none"
    /\ returned = <<>>
    /\ log = <<>>
    /\ calls = 0
    /\ pc = "idle"
    /\ stage_fs \in StageFilesystems
    /\ stage_downloads = <<>>
    /\ stage_last = NoStageCall
    /\ stage_before = [fs |-> stage_fs, downloads |-> <<>>]
    /\ stage_steps = 0

\* What every stage operation does besides its own effect.
StageStep ==
    /\ stage_steps < MaxStageSteps
    /\ stage_steps' = stage_steps + 1
    /\ stage_before' = [fs |-> stage_fs, downloads |-> stage_downloads]
    /\ UNCHANGED buildVars

CheckCreateCache ==
    /\ StageStep
    /\ \E parent_dir \in StageDirs :
           stage_last' = StageCall("CreateCacheStage.check_precondition",
                                   <<parent_dir>>,
                                   CreateCacheStage_check_precondition(stage_fs, parent_dir))
    /\ UNCHANGED <<stage_fs, stage_downloads>>

\* execute is called by a caller that has checked the precondition.
ExecuteCreateCache ==
    /\ StageStep
    /\ \E parent_dir \in StageDirs :
           /\ CreateCacheStage_check_precondition(stage_fs, parent_dir)
           /\ stage_fs' = CreateCacheStage_execute(stage_fs, parent_dir)
           /\ stage_last' = StageCall("CreateCacheStage.execute", <<parent_dir>>, TRUE)
    /\ UNCHANGED stage_downloads

CheckCreateTarfile ==
    /\ StageStep
    /\ \E source_dir \in StageDirs, dest_path \in DestPaths :
           stage_last' = StageCall("CreateTarfileStage.check_precondition",
                                   <<source_dir, dest_path>>,
                                   CreateTarfileStage_check_precondition(
                                       stage_fs, source_dir, dest_path))
    /\ UNCHANGED <<stage_fs, stage_downloads>>

ExecuteCreateTarfile ==
    /\ StageStep
    /\ \E source_dir \in StageDirs, dest_path \in DestPaths :
           /\ CreateTarfileStage_check_precondition(stage_fs, source_dir, dest_path)
           /\ stage_fs' = CreateTarfileStage_execute(stage_fs, source_dir, dest_path)
           /\ stage_last' = StageCall("CreateTarfileStage.execute",
                                      <<source_dir, dest_path>>, TRUE)
    /\ UNCHANGED stage_downloads

CheckDownloadFile ==
    /\ StageStep
    /\ \E url \in Urls, dest_path \in DestPaths :
           stage_last' = StageCall("DownloadFileStage.check_precondition",
                                   <<<<url>>, dest_path>>,
                                   DownloadFileStage_check_precondition(stage_fs, dest_path))
    /\ UNCHANGED <<stage_fs, stage_downloads>>

ExecuteDownloadFile ==
    /\ StageStep
    /\ \E url \in Urls, dest_path \in DestPaths :
           /\ DownloadFileStage_check_precondition(stage_fs, dest_path)
           /\ stage_downloads' = DownloadFileStage_execute(stage_downloads, url, dest_path)
           /\ stage_last' = StageCall("DownloadFileStage.execute",
                                      <<<<url>>, dest_path>>, TRUE)
    /\ UNCHANGED stage_fs

StageNext ==
    \/ CheckCreateCache
    \/ ExecuteCreateCache
    \/ CheckCreateTarfile
    \/ ExecuteCreateTarfile
    \/ CheckDownloadFile
    \/ ExecuteDownloadFile

StageSpec == StageInit /\ [][StageNext]_vars

\* ------------------------------------------------------------------------
\* Vocabulary of the properties
\* ------------------------------------------------------------------------
Ops(l) == {l[i].op : i \in 1..Len(l)}
Count(l, op) == Cardinality({i \in 1..Len(l) : l[i].op = op})

\* The build call has ended, by a return or by an exception.
Ended == pc = "done"

\* The call got as far as the reuse decision.
Decided == pc \in {"enter", "prepare", "docker", "exit", "return", "done"}
               /\ image_name # None

PrepareOps == {"wget.download", "tarfile.open", "tar.add"}
RebuildOps == {"TmpDirHandler.__enter__", "images.build"} \cup PrepareOps

\* Rebuilding was skipped: no scratch directory, no fetch or tarfile step, no
\* artifact construction.
Skipped == Ops(log) \cap RebuildOps = {}

\* The build was performed: the scratch directory was acquired and the fetch
\* or tarfile step was run.
Performed == /\ "TmpDirHandler.__enter__" \in Ops(log)
             /\ Ops(log) \cap PrepareOps # {}

\* The lists that declare the same dependencies as l, in any order.
Permutations_(l) ==
    {m \in DependencyLists :
        /\ Len(m) = Len(l)
        /\ {m[i] : i \in 1..Len(m)} = {l[i] : i \in 1..Len(l)}}

AllDependenciesPresent ==
    \A i \in 1..Len(declared) : declared[i] \in DOMAIN built_config.components

\* The part of s after its last ":" (all of s if it has none).
AfterLastColon(s) ==
    LET at == {i \in 1..Len(s) : s[i] = ":"}
        last == IF at = {} THEN 0 ELSE CHOOSE i \in at : \A j \in at : j <= i
    IN  SubSeq(s, last + 1, Len(s))

\* The names of D, smallest first, each followed by its dependency's tag
\* suffix, joined by "_".
RECURSIVE PairsInOrder(_, _)
PairsInOrder(D, components) ==
    IF D = {} THEN <<>>
    ELSE LET m == CHOOSE d \in D : \A e \in D : e = d \/ StrLess(d, e)
             pair == m \o AfterLastColon(components[m])
         IN  IF D = {m} THEN pair
             ELSE pair \o <<"_">> \o PairsInOrder(D \ {m}, components)

\* ------------------------------------------------------------------------
\* Properties
\* ------------------------------------------------------------------------
\* C1: a build call that reaches the reuse decision skips rebuilding (no
\* scratch directory, no fetch/tarfile step, no artifact construction) if
\* and only if force_rebuild is false, the dist type is RELEASE and the image
\* existed when build was called; in every other combination it is performed.
C1_ReuseIff ==
    (Ended /\ Decided) =>
        IF ~force_rebuild /\ dist_type = RELEASE /\ image_name \in images_before
        THEN Skipped
        ELSE Performed

C1_Witness ==
    /\ Ended /\ Decided /\ Skipped
    /\ ~force_rebuild /\ dist_type = RELEASE /\ image_name \in images_before
    /\ returned # <<>>

\* C2: the computed identifier is the one _get_image_name computes for every
\* arrangement of the declared dependency list.
C2_PermutationInvariant ==
    Decided =>
        \A m \in Permutations_(declared) :
            GetImageName(name, m, dist_type, argument, built_config).value
                = image_name

C2_Witness ==
    /\ Decided /\ Ended
    /\ Len(declared) = 2
    /\ StrLess(declared[2], declared[1])

\* C3 as stated: in the scenario (web depends on [db, cache], repository
\* "acme", release "3.0", db at ".../db:1.0_", cache at ".../cache:2.0_") the
\* identifier is "acme/web:3.0_cachecache2.0_dbdb1.0".
C3_Scenario ==
    /\ Decided
    /\ name = S_web
    /\ declared = <<S_db, S_cache>>
    /\ built_config.repository = S_acme
    /\ DOMAIN built_config.components = {S_db, S_cache}
    /\ dist_type = RELEASE
    /\ argument = <<"3", ".", "0">>

C3_AsStated ==
    C3_Scenario =>
        image_name = <<"a", "c", "m", "e", "/", "w", "e", "b", ":", "3", ".", "0",
                       "_", "c", "a", "c", "h", "e", "c", "a", "c", "h", "e",
                       "2", ".", "0", "_", "d", "b", "d", "b", "1", ".", "0">>

\* C3 amended: in that scenario the identifier is
\* "acme/web:3.0_cache2.0__db1.0_".
C3_ScenarioIdentifier ==
    C3_Scenario =>
        image_name = <<"a", "c", "m", "e", "/", "w", "e", "b", ":", "3", ".", "0",
                       "_", "c", "a", "c", "h", "e", "2", ".", "0", "_",
                       "_", "d", "b", "1", ".", "0", "_">>

C3_Witness == C3_Scenario /\ Ended /\ returned # <<>>

\* C4: with all dependencies present the identifier is repository "/"
\* component_name ":" component_tag "_" dependencies_tag, component_tag being
\* the version or "snapshot_" timestamp, dependencies_tag the dependency
\* names in lexicographic order, each followed by the part of its image_name
\* after the last ":", joined by "_".
C4_IdentifierFormat ==
    (Decided /\ AllDependenciesPresent) =>
        image_name =
            built_config.repository \o <<"/">> \o name \o <<":">>
                \o (IF dist_type = RELEASE THEN argument
                    ELSE S_snapshot_ \o built_config.timestamp)
                \o <<"_">>
                \o PairsInOrder({declared[i] : i \in 1..Len(declared)},
                                built_config.components)

C4_Witness ==
    /\ Decided /\ Ended
    /\ dist_type = SNAPSHOT
    /\ declared = <<S_db, S_b>>
    /\ built_config.components[S_b] = <<"h", ":", "7", "/", "b", ":", "1", "_">>

\* C5 as stated: a build with a resolvable dist type and a declared
\* dependency absent from built_config.components fails with
\* MissingDependencyError, and nothing else is reached.
C5_Case ==
    /\ pc # "idle"
    /\ DistTypeAndArg(component_config).ok
    /\ ~AllDependenciesPresent

PlanPreconditionsHold ==
    IF dist_type = RELEASE
    THEN DownloadFileStagePrecondition(TmpDirEnter)
    ELSE CreateTarfileStagePrecondition(argument, TmpDirEnter)

Rebuilding == "TmpDirHandler.__enter__" \in Ops(log)

\* C6: in a rebuild with a stage whose precondition is false, that stage and
\* the stages after it (artifact construction included) are never executed,
\* and the scratch directory no longer exists when build ends.
C6_AsStated ==
    (Rebuilding /\ dist_type = SNAPSHOT
        /\ ~CreateTarfileStagePrecondition(argument, TmpDirEnter)) =>
        /\ Ops(log) \cap {"tarfile.open", "tar.add", "images.build"} = {}
        /\ Ended => ~tmp_dir.exists

\* C7: in a rebuild no stage effect (fetch, tarfile creation, artifact
\* construction, anything written to the scratch directory) occurs unless
\* every stage precondition of the plan held.
C7_AsStated ==
    (Rebuilding /\ (Ops(log) \cap (PrepareOps \cup {"images.build"}) # {}
                        \/ tmp_dir.files # {})) =>
        PlanPreconditionsHold

\* C8: a build call that acquired the scratch directory does not hold it when
\* the call ends, however it ends; the directory exists only between the
\* handler's __enter__ and __exit__, each of which ran once.
C8_ScratchReleased ==
    /\ tmp_dir.exists => pc \in {"prepare", "docker", "exit"}
    /\ (Ended /\ Rebuilding) =>
           /\ ~tmp_dir.exists
           /\ tmp_dir.files = {}
           /\ Count(log, "TmpDirHandler.__enter__") = 1
           /\ Count(log, "TmpDirHandler.__exit__") = 1
           /\ log[Len(log)].op = "TmpDirHandler.__exit__"

C8_Witness ==
    /\ Ended /\ Rebuilding
    /\ raised = "BuildError"
    /\ dist_type = SNAPSHOT

\* The part of s before its first c (all of s if it has none).
UpToFirst(s, c) ==
    LET at == {i \in 1..Len(s) : s[i] = c}
        first == IF at = {} THEN Len(s) + 1
                 ELSE CHOOSE i \in at : \A j \in at : i <= j
    IN  SubSeq(s, 1, first - 1)

SnapshotReturned == Ended /\ returned # <<>> /\ dist_type = SNAPSHOT

Failed(op) == {i \in 1..Len(log) : log[i].op = op /\ log[i].raises # "none"}

\* C10: once the fetch or the artifact construction has raised, that
\* exception is the one leaving build: the capability was called once, no
\* capability is called after it (no artifact construction after a failed
\* fetch), only the scratch directory is released, and nothing is returned.
C10_FailurePropagates ==
    /\ \A i \in Failed("wget.download") :
           /\ Count(log, "wget.download") = 1
           /\ "images.build" \notin Ops(log)
           /\ raised = log[i].raises
           /\ returned = <<>>
           /\ pc \in {"exit", "done"}
    /\ \A i \in Failed("images.build") :
           /\ Count(log, "images.build") = 1
           /\ i = Len(log) \/ (i = Len(log) - 1 /\ Ended)
           /\ raised = log[i].raises
           /\ returned = <<>>
           /\ pc \in {"exit", "done"}

C10_Witness ==
    /\ Ended
    /\ Failed("wget.download") # {}
    /\ raised = "FetchError"

\* C14: on the reuse path nothing of a rebuild runs: the scratch directory
\* is never acquired, neither the fetch, the tarfile step nor the artifact
\* construction is invoked, and build returns a ComponentConfig whose
\* image_name is the computed identifier.
C14_ReusePath ==
    (reuse_existing_image /\ pc \in {"return", "done"}) =>
        /\ Ops(log) = {"image_exists_locally"}
        /\ ~tmp_dir.exists
        /\ images = images_before
        /\ raised = "none"
        /\ Ended => /\ returned # <<>>
                    /\ returned[1].image_name = image_name
                    /\ image_name \in images

C14_Witness ==
    /\ reuse_existing_image /\ Ended
    /\ returned # <<>>
    /\ Len(declared) = 2

\* C15: no step of build changes built_config: repository, timestamp,
\* resource_path and the components mapping stay as they were passed.
C15_BuiltConfigUnchanged == [][built_config' = built_config]_vars

C15_Witness ==
    /\ Ended /\ Performed
    /\ returned # <<>>
    /\ DOMAIN built_config.components = DepNames

\* The external calls of the current build without the existence check.
RebuildLog == SelectSeq(log, LAMBDA e : e.op # "image_exists_locally")

C17_SnapshotPathIndependent ==
    (Decided /\ dist_type = SNAPSHOT) =>
        /\ image_name =
               built_config.repository \o <<"/">> \o name \o <<":">>
                   \o S_snapshot_ \o built_config.timestamp \o <<"_">>
                   \o PairsInOrder({declared[i] : i \in 1..Len(declared)},
                                   built_config.components)
        /\ ~reuse_existing_image
        /\ "image_exists_locally" \notin Ops(log)
        /\ Ended => Performed

C17_Witness ==
    /\ Decided /\ dist_type = SNAPSHOT /\ Ended
    /\ image_name \in images_before
    /\ ~force_rebuild
    /\ argument = P_file
    /\ "images.build" \in Ops(log)

\* The dependency names of the list l with the tag suffix each has in
\* components.
TagSuffixes(l, components) ==
    {<<l[i], AfterLastColon(components[l[i]])>> : i \in 1..Len(l)}

\* The builds of the same component in the same repository that differ from
\* the current one in the component tag or in the tag suffix of a dependency.
OtherBuilds ==
    {o \in [dist_type : {RELEASE, SNAPSHOT}, tag : Versions \cup Timestamps,
            dependencies : DependencyLists, components : ComponentMaps] :
        /\ o.dist_type = RELEASE => o.tag \in Versions
        /\ o.dist_type = SNAPSHOT => o.tag \in Timestamps
        /\ \A i \in 1..Len(o.dependencies) :
               o.dependencies[i] \in DOMAIN o.components
        /\ \/ (IF o.dist_type = RELEASE THEN o.tag ELSE S_snapshot_ \o o.tag)
                  # (IF dist_type = RELEASE THEN argument
                     ELSE S_snapshot_ \o built_config.timestamp)
           \/ TagSuffixes(o.dependencies, o.components)
                  # TagSuffixes(declared, built_config.components)}

\* C18: no build of the same component that differs in the component tag or
\* in a dependency's tag suffix computes the identifier of the current build.
C18_AsStated ==
    (pc = "decide") =>
        \A o \in OtherBuilds :
            GetImageName(name, o.dependencies, o.dist_type,
                         IF o.dist_type = RELEASE THEN o.tag ELSE None,
                         [built_config EXCEPT !.components = o.components,
                                              !.timestamp = o.tag]).value
                # image_name

\* The ComponentConfig of a build, from what the builder was constructed with
\* and what build is given, force_rebuild and the images that exist left out.
ConfigOfInputs ==
    LET identifier ==
            built_config.repository \o <<"/">> \o name \o <<":">>
                \o (IF component_config.release # None
                    THEN component_config.release
                    ELSE S_snapshot_ \o built_config.timestamp)
                \o <<"_">>
                \o PairsInOrder({declared[i] : i \in 1..Len(declared)},
                                built_config.components)
    IN  [dist_type |-> IF component_config.release # None THEN RELEASE
                       ELSE SNAPSHOT,
         version |-> IF component_config.release # None
                     THEN component_config.release
                     ELSE VersionFromImageName(versionFn, identifier),
         image_name |-> identifier]

\* C19: the ComponentConfig a successful build returns is determined by
\* component_config, built_config and the builder alone: it is the same
\* whether the image was reused or rebuilt, whatever force_rebuild and the
\* existence check were, and for RELEASE its version is the requested one.
C19_SameConfigReusedOrRebuilt ==
    (Ended /\ returned # <<>>) =>
        /\ returned[1] = ConfigOfInputs
        /\ dist_type = RELEASE => returned[1].version = component_config.release

C19_Witness ==
    /\ Ended /\ returned # <<>>
    /\ dist_type = RELEASE
    /\ force_rebuild
    /\ image_name \in images_before
    /\ Performed

\* C20: once a build call is past the dist type resolution, the builder's
\* dependency list holds the declared names in ascending order, and it keeps
\* them so when the build fails later or reuses an image.
C20_DependenciesSortedInPlace ==
    (pc \notin {"idle", "name"} /\ raised # "ConfigurationError") =>
        /\ Len(dependencies) = Len(declared)
        /\ {dependencies[i] : i \in 1..Len(dependencies)}
               = {declared[i] : i \in 1..Len(declared)}
        /\ \A i, j \in 1..Len(dependencies) :
               i < j => StrLess(dependencies[i], dependencies[j])

C20_Witness ==
    /\ Ended /\ raised = "KeyError"
    /\ declared = <<S_db, S_cache>>
    /\ dependencies = <<S_cache, S_db>>

\* C11: CreateCacheStage.execute on a parent_dir that is a directory leaves
\* parent_dir/cache a directory; it removes nothing and creates nothing else,
\* a cache directory that was there before keeps all it held, and executing
\* again changes nothing.
C11_CreateCacheIdempotent ==
    stage_last.op = "CreateCacheStage.execute" =>
        LET parent_dir == stage_last.stage[1]
            cache == parent_dir \o <<"cache">>
        IN  /\ IsDir(stage_before.fs, parent_dir)
            /\ IsDir(stage_fs, cache)
            /\ stage_before.fs.dirs \subseteq stage_fs.dirs
            /\ stage_before.fs.files = stage_fs.files
            /\ stage_fs.dirs \ stage_before.fs.dirs \subseteq {cache}
            /\ IsDir(stage_before.fs, cache) => stage_fs = stage_before.fs
            /\ CreateCacheStage_execute(stage_fs, parent_dir) = stage_fs

C11_Witness ==
    /\ stage_last.op = "CreateCacheStage.execute"
    /\ stage_last.stage[1] = D_parent
    /\ D_parent \o <<"cache", "file">> \in stage_before.fs.files
    /\ stage_steps = 2

\* C12: CreateTarfileStage.check_precondition returns true exactly when
\* source_dir is a directory and the parent of dest_path is a directory;
\* otherwise (either missing or a plain file) it returns false, and it never
\* changes the filesystem.
C12_TarfilePrecondition ==
    stage_last.op = "CreateTarfileStage.check_precondition" =>
        LET source_dir == stage_last.stage[1]
            dest_path == stage_last.stage[2]
        IN  /\ stage_last.result =
                   (/\ source_dir \in stage_fs.dirs
                    /\ SubSeq(dest_path, 1, Len(dest_path) - 1) \in stage_fs.dirs)
            /\ stage_fs = stage_before.fs
            /\ stage_downloads = stage_before.downloads

C12_Witness ==
    /\ stage_last.op = "CreateTarfileStage.check_precondition"
    /\ stage_last.stage = <<D_source, D_parent \o <<"file.tar.gz">>>>
    /\ D_source \in stage_fs.files
    /\ D_parent \in stage_fs.dirs
    /\ ~stage_last.result

\* C13: DownloadFileStage.check_precondition is true exactly when the parent
\* of dest_path is a directory; each execute calls the downloader once, with
\* the url and dest_path the stage was constructed with, and does nothing
\* else.
C13_DownloadFileStage ==
    LET url == stage_last.stage[1][1]
        dest_path == stage_last.stage[2]
    IN  /\ stage_last.op = "DownloadFileStage.check_precondition" =>
               /\ stage_last.result =
                      (SubSeq(dest_path, 1, Len(dest_path) - 1) \in stage_fs.dirs)
               /\ stage_fs = stage_before.fs
               /\ stage_downloads = stage_before.downloads
        /\ stage_last.op = "DownloadFileStage.execute" =>
               /\ Len(stage_downloads) = Len(stage_before.downloads) + 1
               /\ SubSeq(stage_downloads, 1, Len(stage_before.downloads))
                      = stage_before.downloads
               /\ stage_downloads[Len(stage_downloads)] = <<url, dest_path>>
               /\ stage_fs = stage_before.fs

C13_Witness ==
    /\ stage_last.op = "DownloadFileStage.execute"
    /\ stage_last.stage = <<<<"www.something.com">>, D_parent \o <<"file.tar.gz">>>>
    /\ Len(stage_downloads) = 2

====
